---------------------------- MODULE Spec2Model ----------------------------
(***************************************************************************)
(* Model of mc20.py: the per-agent mint loop (run_agent_loop and its      *)
(* attack_thread worker) and the shared indexer recovery loop             *)
(* (recovery_loop).  The remote services are the environment: every HTTP  *)
(* exchange draws its outcome from a bounded catalogue of responses.      *)
(***************************************************************************)
EXTENDS Integers, Sequences, FiniteSets, TLC

(* ------------------------------ bounds -------------------------------- *)
\* Largest number of valid agents main hands to the loops.
MaxAgents == 2
\* Largest value of a retry hint the server sends (the smallest is -1).
MaxHint == 2

(* ------------------------- program constants -------------------------- *)
\* Variant: two requests per agent.
THREADS_PER_AGENT_Doubled == 1 + 1
\* mc20.py:23
THREADS_PER_AGENT == 1
\* mc20.py:184  retry_minutes = 2 * 60
DefaultRetryMinutes == 2 * 60
\* mc20.py:200  (2 * 60 * 60)
SuccessBase == 2 * 60 * 60
\* mc20.py:200  random.randint(60, 300)
RandLo == 60
RandHi == 300
\* mc20.py:212  retry_seconds + 5
SecondsBuffer == 5
\* mc20.py:216  (retry_minutes * 60) + 30
MinutesBuffer == 30
\* mc20.py:221
UnknownSleep == 60
\* mc20.py:107
AgentDelay == 10
\* mc20.py:110
CycleDelay == 300

Agents == 1..MaxAgents
Workers == 1..THREADS_PER_AGENT

(* --------------------------- HTTP responses --------------------------- *)
\* Status codes of the posts endpoint: the two success codes, the rate
\* limit, and two other codes (401 is the one main's console text names).
Statuses == {200, 201, 401, 429, 500}

\* A retry hint as data.get(key) returns it: absent (None) or an integer.
HintVals == -1..MaxHint
NoHint == [present |-> FALSE, val |-> 0]
Hints == {NoHint} \cup [present : {TRUE}, val : HintVals]

\* The "post" field: absent, JSON null, an empty object, a non-empty
\* object, or a truthy value that is no object (a string, a number, true).
PostKinds == {"absent", "null", "emptydict", "dict", "scalar"}

\* Python truthiness of the values above.
Truthy(h) == h.present /\ h.val # 0
PostTruthy(p) == p \in {"dict", "scalar"}
\* data.get('post', {}) yields something with a .get method.
PostHasGet(p) == p \in {"absent", "emptydict", "dict"}

\* What one requests.post call can come to.  raised: the call itself threw.
\* kind: the body is a JSON object ("dict"), some other JSON value
\* ("nondict": a list, a string, null, ...) or no JSON at all ("nojson",
\* r.json() throws).
BlankBody == [success |-> FALSE, post |-> "absent",
              retry_after_seconds |-> NoHint, retry_after_minutes |-> NoHint]
DictBodies == [success : BOOLEAN, post : PostKinds,
               retry_after_seconds : Hints, retry_after_minutes : Hints]
MkResponse(raised, status, kind, body) ==
    [raised |-> raised, status |-> status, kind |-> kind, data |-> body]
RaisedResponse == MkResponse(TRUE, 0, "nojson", BlankBody)
\* No POST made yet.
NoResponse == MkResponse(FALSE, 0, "nojson", BlankBody)
Responses ==
    {RaisedResponse}
      \cup {MkResponse(FALSE, s, k, BlankBody) :
               s \in Statuses, k \in {"nojson", "nondict"}}
      \cup {MkResponse(FALSE, s, "dict", b) : s \in Statuses, b \in DictBodies}


(* ------------------------------- state -------------------------------- *)
VARIABLES
    mpc,            \* main: where main stands
    file,           \* copy.json: whether it exists, and the entries in it
    agents,         \* main: the list loaded from the file (line 236)
    updated,        \* main: a key was added in this run (lines 239, 259)
    midx,           \* main: position of the for loop at work (244, 287)
    writes,         \* times main has written the file
    registered,     \* entries register_agent returned a key for in this run
    threads,        \* the threads main has started, in order (284, 290)
    valid_agents,   \* main: the agents handed to the loops, in file order
    pc,             \* run_agent_loop: where each agent's loop stands
    req_results,    \* run_agent_loop: the result lists, by owner
    wpc,            \* attack_thread: where each worker of each agent stands
    post_r,         \* attack_thread: what the worker's POST came to
    agent_barrier,  \* run_agent_loop: threading.Barrier(THREADS_PER_AGENT)
    success_count,  \* run_agent_loop locals, set by lines 183-222
    got_429,
    retry_minutes,
    sleep_time,
    fired,          \* POSTs sent by the agent since its last completed sleep
    stale_hint,      \* the list line 171 let go of last held a 429 with a hint
    rpc,            \* recovery_loop: where the loop stands
    ridx,           \* recovery_loop: position of the for loop in the list
    recovery_r,     \* recovery_loop: the indexer's answer to the last poll
    rsleep,         \* recovery_loop: length of the sleep in progress, else 0
    cycle_polls,    \* agents polled so far in the current cycle, in order
    polled_once,    \* agents polled at least once
    since_poll      \* seconds the recovery loop slept since an agent's poll

agentVars == <<pc, req_results, wpc, post_r, agent_barrier, success_count, got_429,
               retry_minutes, sleep_time, fired, stale_hint>>
recoveryVars == <<rpc, ridx, recovery_r, rsleep, cycle_polls, polled_once,
                  since_poll>>
mainVars == <<mpc, file, agents, updated, midx, writes, registered, threads,
              valid_agents>>
vars == <<mainVars, agentVars, recoveryVars>>

Range(s) == {s[i] : i \in 1..Len(s)}

\* The list an agent's loop and its workers read and write: req_results is
\* a local of each run_agent_loop call, so every agent owns its own.
\* (Variant: one module-level list for all agents.)
ResultsOwner_Shared(a) == 1
ResultsOwner(a) == a
Results(a) == req_results[ResultsOwner(a)]

(* ------------------- classification (lines 183-222) ------------------- *)
SuccessStatus(e) == e.status = 200 \/ e.status = 201

\* Line 188: the success test of one recorded result.
IsSuccess(e) ==
    SuccessStatus(e) /\ (e.data.success \/ PostTruthy(e.data.post))

\* Lines 188-194 throw AttributeError when .get is called on a value that
\* is no object: the body itself (188, 194) or its "post" field (190).
ScanRaises(e) ==
    IF SuccessStatus(e)
    THEN e.kind # "dict" \/ (IsSuccess(e) /\ ~PostHasGet(e.data.post))
    ELSE e.status = 429 /\ e.kind # "dict"

\* Lines 187-196: one pass of the for loop over a recorded result.
ScanStep(acc, e) ==
    IF IsSuccess(e)
    THEN [acc EXCEPT !.success_count = @ + 1]
    ELSE IF e.status = 429
    THEN [acc EXCEPT !.got_429 = TRUE,
                     !.retry_minutes =
                         IF Truthy(e.data.retry_after_minutes)
                         THEN e.data.retry_after_minutes.val ELSE @]
    ELSE acc

RECURSIVE ScanFrom(_, _, _)
ScanFrom(res, i, acc) ==
    IF i > Len(res) THEN acc
    ELSE IF ScanRaises(res[i]) THEN [acc EXCEPT !.raised = TRUE]
    ELSE ScanFrom(res, i + 1, ScanStep(acc, res[i]))

\* Lines 183-196.
Scan(res) ==
    ScanFrom(res, 1, [raised |-> FALSE, success_count |-> 0,
                      retry_minutes |-> DefaultRetryMinutes, got_429 |-> FALSE])

\* Lines 204-209: the first truthy retry_after_seconds of the list, 0 when
\* there is none; .get throws on a body that is no object.
RECURSIVE RetrySeconds(_, _)
RetrySeconds(res, i) ==
    IF i > Len(res) THEN [raised |-> FALSE, val |-> 0]
    ELSE IF res[i].kind # "dict" THEN [raised |-> TRUE, val |-> 0]
    ELSE IF Truthy(res[i].data.retry_after_seconds)
    THEN [raised |-> FALSE, val |-> res[i].data.retry_after_seconds.val]
    ELSE RetrySeconds(res, i + 1)

\* random.randint(lo, hi) is any integer of lo..hi; the model draws the two
\* ends, their neighbours and the middle.
randint(lo, hi) == {lo, lo + 1, (lo + hi) \div 2, hi - 1, hi}

\* Line 200.
SuccessSleeps == {SuccessBase + j : j \in randint(RandLo, RandHi)}

\* Lines 211-216.  (Variant: a minutes hint is looked at first.)
RateLimitSleep_MinutesFirst(retry_seconds, minutes) ==
    IF minutes # DefaultRetryMinutes
    THEN (minutes * 60) + MinutesBuffer
    ELSE IF retry_seconds > 0 THEN retry_seconds + SecondsBuffer
    ELSE (minutes * 60) + MinutesBuffer
\* (Variant: the minutes are not turned into seconds.)
RateLimitSleep_MinutesAsSeconds(retry_seconds, minutes) ==
    IF retry_seconds > 0 THEN retry_seconds + SecondsBuffer
    ELSE minutes + MinutesBuffer
RateLimitSleep(retry_seconds, minutes) ==
    IF retry_seconds > 0 THEN retry_seconds + SecondsBuffer
    ELSE (minutes * 60) + MinutesBuffer

\* Lines 198-222: whether the branch taken throws, and the values sleep_time
\* can get.
BranchRaises(res) ==
    LET sc == Scan(res)
    IN  sc.success_count = 0 /\ sc.got_429 /\ RetrySeconds(res, 1).raised

SleepTimes(res) ==
    LET sc == Scan(res)
    IN  IF sc.success_count > 0 THEN SuccessSleeps
        ELSE IF sc.got_429
        THEN {RateLimitSleep(RetrySeconds(res, 1).val, sc.retry_minutes)}
        ELSE {UnknownSleep}


(* --------------------- attack_thread (lines 120-165) ------------------ *)
\* Lines 158-165: what a POST leaves in the result list.  A call that threw
\* and a body r.json() cannot parse leave nothing (the except clause).
\* (Variant: the status of an unparsable response is recorded with an empty
\* body.)
Recorded_KeepStatus(r) ==
    IF r.raised THEN <<>>
    ELSE IF r.kind = "nojson"
    THEN <<MkResponse(FALSE, r.status, "dict", BlankBody)>>
    ELSE <<r>>
Recorded(r) ==
    IF r.raised \/ r.kind = "nojson" THEN <<>> ELSE <<r>>

SetWpc(a, w, to) == wpc' = [wpc EXCEPT ![a][w] = to]

\* Lines 121-154: build the request, then agent_barrier.wait().  A thread
\* enters while the barrier is filling; the last one to enter opens it.
BarrierEnter(a, w) ==
    /\ wpc[a][w] = "barrier"
    /\ agent_barrier[a].state = "filling"
    /\ agent_barrier' = [agent_barrier EXCEPT ![a] =
           [count |-> @.count + 1,
            state |-> IF @.count + 1 = THREADS_PER_AGENT
                      THEN "draining" ELSE "filling"]]
    /\ SetWpc(a, w, "waiting")
    /\ UNCHANGED <<mainVars, stale_hint, pc, req_results, post_r,
                   success_count, got_429, retry_minutes, sleep_time, fired,
                   recoveryVars>>

\* Line 154 returns: the thread leaves the open barrier; the last one to
\* leave resets it.
BarrierExit(a, w) ==
    /\ wpc[a][w] = "waiting"
    /\ agent_barrier[a].state = "draining"
    /\ agent_barrier' = [agent_barrier EXCEPT ![a] =
           [count |-> @.count - 1,
            state |-> IF @.count = 1 THEN "filling" ELSE "draining"]]
    /\ SetWpc(a, w, "post")
    /\ UNCHANGED <<mainVars, stale_hint, pc, req_results, post_r,
                   success_count, got_429, retry_minutes, sleep_time, fired,
                   recoveryVars>>

\* Lines 158-165: the POST, answered by any response of the catalogue R.
Post(a, w, R) ==
    /\ wpc[a][w] = "post"
    /\ \E r \in R :
          /\ post_r' = [post_r EXCEPT ![a][w] = r]
          /\ req_results' =
                 [req_results EXCEPT ![ResultsOwner(a)] = @ \o Recorded(r)]
    /\ fired' = [fired EXCEPT ![a] = @ + 1]
    /\ SetWpc(a, w, "done")
    /\ UNCHANGED <<mainVars, stale_hint, pc, agent_barrier, success_count,
                   got_429, retry_minutes, sleep_time, recoveryVars>>

(* -------------------- run_agent_loop (lines 170-224) ------------------ *)
NoLocals(a) ==
    /\ success_count' = [success_count EXCEPT ![a] = 0]
    /\ got_429' = [got_429 EXCEPT ![a] = FALSE]
    /\ retry_minutes' = [retry_minutes EXCEPT ![a] = DefaultRetryMinutes]
    /\ sleep_time' = [sleep_time EXCEPT ![a] = 0]

\* A recorded result that is a 429 with a retry hint lines 194 or 207 take.
HintOn429(e) ==
    /\ e.status = 429
    /\ e.kind = "dict"
    /\ Truthy(e.data.retry_after_seconds) \/ Truthy(e.data.retry_after_minutes)

\* Line 171: the list the iteration starts with, given the one it ended the
\* last with.  (Variant: the list is carried over.)
FreshResults_Kept(old) == old
FreshResults(old) == <<>>

\* Lines 171-174: a fresh result list and an empty worker list.
LoopTop(a) ==
    /\ pc[a] = "top"
    /\ pc' = [pc EXCEPT ![a] = "spawn"]
    /\ req_results' = [req_results EXCEPT ![ResultsOwner(a)] = FreshResults(@)]
    /\ stale_hint' = [stale_hint EXCEPT ![a] =
                        \E i \in 1..Len(Results(a)) : HintOn429(Results(a)[i])]
    /\ wpc' = [wpc EXCEPT ![a] = [w \in Workers |-> "none"]]
    /\ post_r' = [post_r EXCEPT ![a] = [w \in Workers |-> NoResponse]]
    /\ UNCHANGED <<mainVars, agent_barrier, success_count, got_429,
                   retry_minutes, sleep_time, fired, recoveryVars>>

\* Lines 175-178: start the next worker thread.
StartWorker(a) ==
    /\ pc[a] = "spawn"
    /\ \E w \in Workers :
          /\ wpc[a][w] = "none"
          /\ \A v \in Workers : v < w => wpc[a][v] # "none"
          /\ SetWpc(a, w, "barrier")
          /\ pc' = [pc EXCEPT ![a] =
                       IF w = THREADS_PER_AGENT THEN "join" ELSE "spawn"]
    /\ UNCHANGED <<mainVars, stale_hint, req_results, post_r, agent_barrier,
                   success_count, got_429, retry_minutes, sleep_time, fired,
                   recoveryVars>>

\* Lines 180-181: t.join() returns once the thread has ended.
JoinReady(a) == \A w \in Workers : wpc[a][w] = "done"

Join(a) ==
    /\ pc[a] = "join"
    /\ JoinReady(a)
    /\ pc' = [pc EXCEPT ![a] = "classify"]
    /\ UNCHANGED <<mainVars, stale_hint, req_results, wpc, post_r,
                   agent_barrier, success_count, got_429, retry_minutes,
                   sleep_time, fired, recoveryVars>>

\* Lines 183-222: classify the results and choose sleep_time; an uncaught
\* exception ends the agent's thread.
Classify(a) ==
    /\ pc[a] = "classify"
    /\ LET res == Results(a)
           sc == Scan(res)
       IN  IF sc.raised \/ BranchRaises(res)
           THEN /\ pc' = [pc EXCEPT ![a] = "raised_classify"]
                /\ UNCHANGED <<success_count, got_429, retry_minutes, sleep_time>>
           ELSE /\ pc' = [pc EXCEPT ![a] = "sleep"]
                /\ success_count' = [success_count EXCEPT ![a] = sc.success_count]
                /\ got_429' = [got_429 EXCEPT ![a] = sc.got_429]
                /\ retry_minutes' = [retry_minutes EXCEPT ![a] = sc.retry_minutes]
                /\ \E t \in SleepTimes(res) :
                      sleep_time' = [sleep_time EXCEPT ![a] = t]
    /\ UNCHANGED <<mainVars, stale_hint, req_results, wpc, post_r,
                   agent_barrier, fired, recoveryVars>>

\* Line 224: time.sleep(sleep_time) starts; a negative length raises
\* ValueError, which nothing catches.
SleepCall(a) ==
    /\ pc[a] = "sleep"
    /\ pc' = [pc EXCEPT ![a] =
                 IF sleep_time[a] < 0 THEN "raised_sleep" ELSE "sleeping"]
    /\ UNCHANGED <<mainVars, stale_hint, req_results, wpc, post_r,
                   agent_barrier, success_count, got_429, retry_minutes,
                   sleep_time, fired, recoveryVars>>

\* Line 224 returns and the loop goes round.  The locals of lines 183-222
\* are dead from here until they are assigned again.
WakeUp(a) ==
    /\ pc[a] = "sleeping"
    /\ pc' = [pc EXCEPT ![a] = "top"]
    /\ fired' = [fired EXCEPT ![a] = 0]
    /\ NoLocals(a)
    /\ UNCHANGED <<mainVars, stale_hint, req_results, wpc, post_r,
                   agent_barrier, recoveryVars>>

\* The thread of the agent's loop has ended on an uncaught exception.
Crashed(a) == pc[a] \in {"raised_classify", "raised_sleep"}

\* The outcome of the classification, as the branch of lines 198-222 taken.
Classified(a) == pc[a] \in {"sleep", "sleeping", "raised_sleep"}
Outcome(a) ==
    IF success_count[a] > 0 THEN "success"
    ELSE IF got_429[a] THEN "rate-limited"
    ELSE "unknown-error"


(* --------------------- recovery_loop (lines 87-110) ------------------- *)
\* What one requests.get to the indexer can come to.
PollStatuses == {200, 500}
NoPoll == [raised |-> FALSE, status |-> 0, kind |-> "nojson", success |-> FALSE]
PollResponses ==
    [raised : {TRUE}, status : {0}, kind : {"nojson"}, success : {FALSE}]
      \cup [raised : {FALSE}, status : PollStatuses, kind : {"nojson", "nondict"},
            success : {FALSE}]
      \cup [raised : {FALSE}, status : PollStatuses, kind : {"dict"},
            success : BOOLEAN]

\* Lines 90-104: the line the poll logs.  Within the try block r.json() and
\* data.get throw on a 200 whose body is no JSON object.
RecoveryLog(r) ==
    IF r.raised THEN "Error"
    ELSE IF r.status = 200
    THEN IF r.kind # "dict" THEN "Error"
         ELSE IF r.success THEN "Sync OK" ELSE "Sync Failed"
    ELSE "HTTP"

\* Lines 90, 103-104: except Exception catches whatever the poll throws.
\* (Variant: no except clause.)
PollSurvives_Uncaught(r) == RecoveryLog(r) # "Error"
PollSurvives(r) == TRUE

\* Line 282: the list recovery_loop is started on.
\* (Variant: the whole loaded list.)
RecoveryList_AllAgents == [i \in 1..Len(agents) |-> i]
RecoveryList == valid_agents

Slept(d) ==
    since_poll' = [a \in Agents |->
                      IF a \in polled_once THEN since_poll[a] + d ELSE since_poll[a]]

\* Lines 88-104 and the call of line 107: poll the agent the for loop is at.
RecoveryPollWith(R) ==
    /\ rpc = "poll"
    /\ LET a == RecoveryList[ridx]
       IN  /\ cycle_polls' = Append(cycle_polls, a)
           /\ polled_once' = polled_once \cup {a}
           /\ since_poll' = [since_poll EXCEPT ![a] = 0]
    /\ \E r \in R :
          /\ recovery_r' = r
          /\ rpc' = IF PollSurvives(r) THEN "sleep_agent" ELSE "dead"
          /\ rsleep' = IF PollSurvives(r) THEN AgentDelay ELSE 0
    /\ UNCHANGED <<mainVars, agentVars, ridx>>

RecoveryPoll == RecoveryPollWith(PollResponses)

\* Line 107 returns: on to the next agent, or to the sleep of line 110.
RecoveryNext ==
    /\ rpc = "sleep_agent"
    /\ Slept(rsleep)
    /\ IF ridx < Len(RecoveryList)
       THEN /\ ridx' = ridx + 1
            /\ rpc' = "poll"
            /\ rsleep' = 0
       ELSE /\ ridx' = ridx
            /\ rpc' = "sleep_cycle"
            /\ rsleep' = CycleDelay
    /\ UNCHANGED <<mainVars, agentVars, recovery_r, cycle_polls, polled_once>>

\* Line 110 returns: the next cycle starts at the head of the list.
RecoveryCycle ==
    /\ rpc = "sleep_cycle"
    /\ Slept(rsleep)
    /\ ridx' = 1
    /\ rpc' = "poll"
    /\ rsleep' = 0
    /\ cycle_polls' = <<>>
    /\ UNCHANGED <<mainVars, agentVars, recovery_r, polled_once>>

(* -------------------------- main (lines 226-296) ---------------------- *)
\* The entries of copy.json: a name and an api_key.  The names are the two
\* placeholders of line 249 and a real one, "agent"; the keys are the empty
\* string of the template, the placeholder "key", a key shorter than 10
\* characters and a key of 10.
KeyLen(k) ==
    CASE k = "" -> 0
      [] k = "key" -> 3
      [] k = "short" -> 5
      [] OTHER -> 10
FileEntries ==
    [name : {"agent"}, api_key : {"", "key", "short", "0123456789"}]
      \cup {[name |-> "YourAgentName", api_key |-> ""],
            [name |-> "name", api_key |-> "0123456789"]}
Files ==
    {[exists |-> FALSE, entries |-> <<>>]}
      \cup {[exists |-> TRUE, entries |-> e] :
               e \in UNION {[1..n -> FileEntries] : n \in 0..MaxAgents}}

\* Line 231: the template main writes when there is no file.
Template == <<[name |-> "YourAgentName", api_key |-> ""]>>

\* Line 249.
Placeholder(name) == name = "name" \/ name = "YourAgentName"

\* Line 254.  (Variant: the test "not api_key" alone.)
NeedsKey_EmptyOnly(k) == k = ""
NeedsKey(k) == k = "" \/ k = "key" \/ KeyLen(k) < 10

\* register_agent, lines 33-69: what the registration call can come to, and
\* the key it returns; None is the empty string here, both being falsy.
\* The key the server gives is one of fewer than 10 characters: line 257
\* takes whatever key comes, with no test of its length.
RegisterResponses ==
    [raised : {TRUE}, status : {0}, kind : {"nojson"}, api_key : {""}]
      \cup [raised : {FALSE}, status : {200, 201, 409},
            kind : {"nojson", "nondict"}, api_key : {""}]
      \cup [raised : {FALSE}, status : {200, 201, 409}, kind : {"dict"},
            api_key : {"", "short"}]
register_agent(r) ==
    IF ~r.raised /\ r.status \in {200, 201} /\ r.kind = "dict"
    THEN r.api_key ELSE ""

\* Lines 227-236: without a file main writes the template and returns;
\* otherwise it loads the list.
MainLoad ==
    /\ mpc = "start"
    /\ IF file.exists
       THEN /\ agents' = file.entries
            /\ mpc' = "register"
            /\ UNCHANGED <<file, writes>>
       ELSE /\ file' = [exists |-> TRUE, entries |-> Template]
            /\ writes' = writes + 1
            /\ mpc' = "template"
            /\ UNCHANGED agents
    /\ UNCHANGED <<updated, midx, registered, threads, valid_agents, agentVars,
                   recoveryVars>>

\* Lines 244-266: one pass of the registration loop.
MainRegister ==
    /\ mpc = "register"
    /\ midx <= Len(agents)
    /\ midx' = midx + 1
    /\ LET agent == agents[midx]
       IN  IF Placeholder(agent.name)
           THEN UNCHANGED <<agents, updated, registered, valid_agents>>
           ELSE IF NeedsKey(agent.api_key)
           THEN \E r \in RegisterResponses :
                   LET new_key == register_agent(r)
                   IN  IF new_key # ""
                       THEN /\ agents' = [agents EXCEPT ![midx].api_key = new_key]
                            /\ updated' = TRUE
                            /\ registered' = registered \cup {midx}
                            /\ valid_agents' = Append(valid_agents, midx)
                       ELSE UNCHANGED <<agents, updated, registered, valid_agents>>
           ELSE /\ valid_agents' = Append(valid_agents, midx)
                /\ UNCHANGED <<agents, updated, registered>>
    /\ UNCHANGED <<mpc, file, writes, threads, agentVars, recoveryVars>>

\* Line 269.  (Variant: the file is written back every time.)
SaveNeeded_Always == TRUE
SaveNeeded == updated

\* Lines 268-272: save the keys when some were added.
MainSave ==
    /\ mpc = "register"
    /\ midx > Len(agents)
    /\ mpc' = "schedule"
    /\ IF SaveNeeded
       THEN /\ file' = [exists |-> TRUE, entries |-> agents]
            /\ writes' = writes + 1
       ELSE UNCHANGED <<file, writes>>
    /\ UNCHANGED <<agents, updated, midx, registered, threads, valid_agents,
                   agentVars, recoveryVars>>

\* Lines 274-279: nothing to run, or on to the threads.
MainSchedule ==
    /\ mpc = "schedule"
    /\ mpc' = IF valid_agents = <<>> THEN "returned" ELSE "start_recovery"
    /\ UNCHANGED <<file, agents, updated, midx, writes, registered, threads,
                   valid_agents, agentVars, recoveryVars>>

\* Lines 282 and 288: a thread is a target and, for run_agent_loop, the
\* agent it is started on.
RecoveryThread == [target |-> "recovery_loop", agent |-> 0]
AgentThread(a) == [target |-> "run_agent_loop", agent |-> a]

\* Lines 282-284: the recovery thread.
MainStartRecovery ==
    /\ mpc = "start_recovery"
    /\ mpc' = "start_agents"
    /\ midx' = 1
    /\ rpc' = "poll"
    /\ threads' = Append(threads, RecoveryThread)
    /\ UNCHANGED <<file, agents, updated, writes, registered, valid_agents,
                   agentVars, ridx, recovery_r, rsleep, cycle_polls, polled_once,
                   since_poll>>

\* Line 287: the list the agent loops are started on.
LoopTargets == valid_agents

\* Lines 287-290: one agent thread per pass.
MainStartAgent ==
    /\ mpc = "start_agents"
    /\ midx <= Len(LoopTargets)
    /\ midx' = midx + 1
    /\ pc' = [pc EXCEPT ![LoopTargets[midx]] = "top"]
    /\ threads' = Append(threads, AgentThread(LoopTargets[midx]))
    /\ UNCHANGED <<mpc, file, agents, updated, writes, registered, valid_agents,
                   req_results, wpc, post_r, agent_barrier, success_count,
                   got_429, retry_minutes, sleep_time, fired, stale_hint,
                   recoveryVars>>

\* Lines 292-294: main idles from here on.
MainWait ==
    /\ mpc = "start_agents"
    /\ midx > Len(LoopTargets)
    /\ mpc' = "waiting"
    /\ UNCHANGED <<file, agents, updated, midx, writes, registered, threads,
                   valid_agents, agentVars, recoveryVars>>

MainStep ==
    \/ MainLoad
    \/ MainRegister
    \/ MainSave
    \/ MainSchedule
    \/ MainStartRecovery
    \/ MainStartAgent
    \/ MainWait

(* ------------------------- initial states ----------------------------- *)
\* main, lines 244-266: valid_agents keeps the order of the file.
AgentLists ==
    {s \in UNION {[1..n -> Agents] : n \in 1..MaxAgents} :
        \A i, j \in 1..Len(s) : i < j => s[i] < s[j]}

\* A file main makes the list out of: a keyed entry at each position of
\* the list, the template's entry at the others.
FileOf(list) ==
    [exists |-> TRUE,
     entries |-> [i \in 1..list[Len(list)] |->
                    IF i \in Range(list)
                    THEN [name |-> "agent", api_key |-> "0123456789"]
                    ELSE [name |-> "YourAgentName", api_key |-> ""]]]

\* The state when main (lines 282-290) has started the threads.
InitWith(list) ==
    /\ mpc = "waiting"
    /\ file = FileOf(list)
    /\ agents = FileOf(list).entries
    /\ updated = FALSE
    /\ midx = Len(list) + 1
    /\ writes = 0
    /\ registered = {}
    /\ threads = <<RecoveryThread>> \o [i \in 1..Len(list) |-> AgentThread(list[i])]
    /\ valid_agents = list
    /\ pc = [a \in Agents |-> IF a \in Range(list) THEN "top" ELSE "none"]
    /\ req_results = [a \in Agents |-> <<>>]
    /\ wpc = [a \in Agents |-> [w \in Workers |-> "none"]]
    /\ post_r = [a \in Agents |-> [w \in Workers |-> NoResponse]]
    /\ agent_barrier = [a \in Agents |-> [count |-> 0, state |-> "filling"]]
    /\ success_count = [a \in Agents |-> 0]
    /\ got_429 = [a \in Agents |-> FALSE]
    /\ retry_minutes = [a \in Agents |-> DefaultRetryMinutes]
    /\ sleep_time = [a \in Agents |-> 0]
    /\ fired = [a \in Agents |-> 0]
    /\ stale_hint = [a \in Agents |-> FALSE]
    /\ rpc = "poll"
    /\ ridx = 1
    /\ recovery_r = NoPoll
    /\ rsleep = 0
    /\ cycle_polls = <<>>
    /\ polled_once = {}
    /\ since_poll = [a \in Agents |-> 0]

(* --------------------------- specifications -------------------------- *)
\* The responses the swarm is run against: one of each way an attempt can
\* end (nothing recorded, success, plain 429, a 429 whose hint makes the
\* sleep negative, a 200 whose body is no object).
CoreResponses ==
    {r \in Responses :
        \/ r.raised
        \/ /\ r.kind = "nondict"
           /\ r.status = 200
        \/ /\ r.kind = "dict"
           /\ r.data.retry_after_seconds = NoHint
           /\ \/ /\ r.status = 200
                 /\ r.data.success
                 /\ r.data.post = "dict"
                 /\ r.data.retry_after_minutes = NoHint
              \/ /\ r.status = 429
                 /\ ~r.data.success
                 /\ r.data.post = "absent"
                 /\ ~r.data.retry_after_minutes.present
                      \/ r.data.retry_after_minutes.val = -1}

\* The agents whose run_agent_loop thread has been started.
Running == {a \in Agents : pc[a] # "none"}

\* The steps of the agent loops, against the responses R.
AgentsNext(R) ==
    \/ \E a \in Running : LoopTop(a)
    \/ \E a \in Running : StartWorker(a)
    \/ \E a \in Running, w \in Workers : BarrierEnter(a, w)
    \/ \E a \in Running, w \in Workers : BarrierExit(a, w)
    \/ \E a \in Running, w \in Workers : Post(a, w, R)
    \/ \E a \in Running : Join(a)
    \/ \E a \in Running : Classify(a)
    \/ \E a \in Running : SleepCall(a)
    \/ \E a \in Running : WakeUp(a)

RecoveryStep == RecoveryPoll \/ RecoveryNext \/ RecoveryCycle

\* The program run on a file with one valid agent: its mint loop, answered
\* by every response, and the recovery loop.
Init == InitWith(<<1>>)
Next == AgentsNext(Responses) \/ RecoveryStep
Spec == Init /\ [][Next]_vars

\* The mint loops of every list of agents main can start.
InitSwarm == \E list \in AgentLists : InitWith(list)
NextSwarm == AgentsNext(CoreResponses)
SpecSwarm == InitSwarm /\ [][NextSwarm]_vars

\* The recovery loop over every list of agents main can start.
InitRecovery == \E list \in AgentLists : InitWith(list)
NextRecovery == RecoveryStep
SpecRecovery == InitRecovery /\ [][NextRecovery]_vars

\* main from its first line on, over every file, with the loops it starts.
\* The loops are run against a request that fails and a poll that fails.
MainResponses == {RaisedResponse}
MainPolls == {r \in PollResponses : r.raised}
InitMain ==
    /\ mpc = "start"
    /\ file \in Files
    /\ agents = <<>>
    /\ updated = FALSE
    /\ midx = 1
    /\ writes = 0
    /\ registered = {}
    /\ threads = <<>>
    /\ valid_agents = <<>>
    /\ pc = [a \in Agents |-> "none"]
    /\ req_results = [a \in Agents |-> <<>>]
    /\ wpc = [a \in Agents |-> [w \in Workers |-> "none"]]
    /\ post_r = [a \in Agents |-> [w \in Workers |-> NoResponse]]
    /\ agent_barrier = [a \in Agents |-> [count |-> 0, state |-> "filling"]]
    /\ success_count = [a \in Agents |-> 0]
    /\ got_429 = [a \in Agents |-> FALSE]
    /\ retry_minutes = [a \in Agents |-> DefaultRetryMinutes]
    /\ sleep_time = [a \in Agents |-> 0]
    /\ fired = [a \in Agents |-> 0]
    /\ stale_hint = [a \in Agents |-> FALSE]
    /\ rpc = "none"
    /\ ridx = 1
    /\ recovery_r = NoPoll
    /\ rsleep = 0
    /\ cycle_polls = <<>>
    /\ polled_once = {}
    /\ since_poll = [a \in Agents |-> 0]
NextMain ==
    \/ MainStep
    \/ AgentsNext(MainResponses)
    \/ RecoveryPollWith(MainPolls)
    \/ RecoveryNext
    \/ RecoveryCycle
SpecMain == InitMain /\ [][NextMain]_vars


(* ---------------------------- properties ------------------------------ *)
\* Lines 183-222 have run on the attempt of the current iteration.
Processed(a) == pc[a] \in {"sleep", "sleeping", "raised_classify", "raised_sleep"}
\* The response to the one POST of the current iteration.
Attempt(a) == post_r[a][1]
HasBody(r) == ~r.raised /\ r.kind = "dict"
AllWorkersEnded(a) == \A w \in Workers : wpc[a][w] = "done"

\* C1: every iteration of an agent's loop fires exactly one POST, classifies
\* only once the worker thread has ended, sleeps only after classifying, and
\* never fires a second POST before a sleep has completed.
C1_OnePostPerIteration ==
    [][\A a \in Running :
          /\ (pc[a] = "classify" /\ pc'[a] # "classify")
                => (AllWorkersEnded(a) /\ fired[a] = 1)
          /\ (pc[a] # "classify" /\ pc'[a] = "classify") => AllWorkersEnded(a)
          /\ (pc[a] # "sleeping" /\ pc'[a] = "sleeping")
                => (pc[a] = "sleep" /\ fired[a] = 1)
          /\ fired'[a] > fired[a] => fired[a] = 0]_vars

C1_Witness ==
    /\ pc[1] = "sleeping"
    /\ fired[1] = 1
    /\ AllWorkersEnded(1)

\* C2: every attempt is classified, as success iff the status is 200 or 201
\* and the body has a truthy "success" or "post", as rate-limited iff the
\* status is 429, and as unknown-error in every other case.
C2_Expected(r) ==
    IF r.raised \/ r.kind = "nojson" THEN "unknown-error"
    ELSE IF r.status \in {200, 201} /\ r.kind = "dict"
            /\ (r.data.success \/ PostTruthy(r.data.post))
    THEN "success"
    ELSE IF r.status = 429 THEN "rate-limited"
    ELSE "unknown-error"

C2_EveryAttemptClassified ==
    \A a \in Running :
        Processed(a) =>
            (Classified(a) /\ Outcome(a) = C2_Expected(Attempt(a)))

\* C3: an agent loop never stops on its own, whatever the attempt came to.
C3_NeverStops == \A a \in Running : ~Crashed(a)

\* C4: a 429 whose body carries retry_after_seconds > 0 makes the agent
\* sleep retry_after_seconds + 5 seconds, whatever retry_after_minutes says.
C4_SecondsHint ==
    \A a \in Running :
        LET r == Attempt(a)
        IN  (/\ Processed(a)
             /\ HasBody(r)
             /\ r.status = 429
             /\ r.data.retry_after_seconds.present
             /\ r.data.retry_after_seconds.val > 0)
            => /\ pc[a] \in {"sleep", "sleeping"}
               /\ Outcome(a) = "rate-limited"
               /\ sleep_time[a] = r.data.retry_after_seconds.val + 5

C4_Witness ==
    /\ pc[1] = "sleeping"
    /\ HasBody(Attempt(1))
    /\ Attempt(1).status = 429
    /\ Attempt(1).data.retry_after_seconds = [present |-> TRUE, val |-> 2]
    /\ Attempt(1).data.retry_after_minutes = [present |-> TRUE, val |-> 1]
    /\ sleep_time[1] = 7

\* C5: a 429 without retry_after_seconds > 0 makes the agent sleep
\* retry_after_minutes * 60 + 30 seconds when retry_after_minutes is truthy,
\* and 7230 seconds otherwise.
C5_MinutesHint ==
    \A a \in Running :
        LET r == Attempt(a)
        IN  (/\ Processed(a)
             /\ HasBody(r)
             /\ r.status = 429
             /\ ~(r.data.retry_after_seconds.present
                    /\ r.data.retry_after_seconds.val > 0))
            => /\ pc[a] \in {"sleep", "sleeping"}
               /\ sleep_time[a] =
                     IF Truthy(r.data.retry_after_minutes)
                     THEN r.data.retry_after_minutes.val * 60 + 30
                     ELSE 7230

\* C6: after a successful attempt the agent sleeps between 7260 and 7500
\* seconds, whatever retry hints the response carries.
C6_SuccessSleep ==
    \A a \in Running :
        LET r == Attempt(a)
        IN  (/\ Processed(a)
             /\ HasBody(r)
             /\ r.status \in {200, 201}
             /\ (r.data.success \/ PostTruthy(r.data.post)))
            => /\ pc[a] \in {"sleep", "sleeping"}
               /\ sleep_time[a] \in 7260..7500

\* C7: an attempt classified as unknown-error is followed by a sleep of 60
\* seconds; a POST that raised, and a body that is no JSON, are such
\* attempts whatever the status of the response.
C7_UnknownSleep ==
    \A a \in Running :
        /\ (Classified(a) /\ Outcome(a) = "unknown-error")
              => (pc[a] \in {"sleep", "sleeping"} /\ sleep_time[a] = 60)
        /\ (Processed(a) /\ (Attempt(a).raised \/ Attempt(a).kind = "nojson"))
              => (Classified(a) /\ Outcome(a) = "unknown-error")

C7_Witness ==
    /\ pc[1] = "sleeping"
    /\ ~Attempt(1).raised
    /\ Attempt(1).kind = "nojson"
    /\ Attempt(1).status = 429
    /\ sleep_time[1] = 60


\* What belongs to one agent's loop: its position, its workers, its result
\* list, its barrier and its locals.
AgentState(a) ==
    <<pc[a], wpc[a], post_r[a], Results(a), agent_barrier[a], success_count[a],
      got_429[a], retry_minutes[a], sleep_time[a], fired[a]>>

\* Some step of agent a's loop or of its workers.
AgentStep(a) ==
    \/ LoopTop(a) \/ StartWorker(a) \/ Join(a) \/ Classify(a)
    \/ SleepCall(a) \/ WakeUp(a)
    \/ \E w \in Workers :
          BarrierEnter(a, w) \/ BarrierExit(a, w) \/ Post(a, w, CoreResponses)

\* C8: the agents do not coordinate.  A step of one agent changes nothing of
\* another; an agent's outcome follows from its own response; and whatever
\* the others do (sleep, crash), an agent whose thread lives can step.
C8_NoCoordination ==
    [][/\ \A a, b \in Running :
             (a # b /\ AgentState(a)' # AgentState(a))
                => AgentState(b)' = AgentState(b)
       /\ \A a \in Running :
             /\ Classified(a) => Outcome(a) = C2_Expected(Attempt(a))
             /\ ~Crashed(a) => ENABLED AgentStep(a)]_vars

C8_Witness ==
    /\ Len(valid_agents) = 2
    /\ pc[1] = "raised_classify"
    /\ pc[2] = "sleeping"
    /\ Outcome(2) = "success"
    /\ Results(1) # Results(2)

\* C9: the recovery loop polls the agents of its list once each per cycle,
\* in list order, sleeps 10 seconds after each and 300 seconds after the
\* last, and goes on like that whatever the indexer answers.
C9_FixedCadence ==
    /\ rpc \in {"poll", "sleep_agent", "sleep_cycle"}
    /\ ENABLED RecoveryStep
    /\ ridx \in 1..Len(valid_agents)
    /\ cycle_polls = SubSeq(valid_agents, 1, Len(cycle_polls))
    /\ rpc = "poll" => (Len(cycle_polls) = ridx - 1 /\ rsleep = 0)
    /\ rpc = "sleep_agent" => (Len(cycle_polls) = ridx /\ rsleep = 10)
    /\ rpc = "sleep_cycle" => (cycle_polls = valid_agents /\ rsleep = 300)

C9_Witness ==
    /\ valid_agents = <<1, 2>>
    /\ polled_once = {1, 2}
    /\ rpc = "poll"
    /\ ridx = 2
    /\ RecoveryLog(recovery_r) = "Error"

\* C10: between two consecutive polls of the same agent the recovery loop
\* sleeps 300 seconds, however many agents there are.
C10_FiveMinutes ==
    (rpc = "poll" /\ valid_agents[ridx] \in polled_once)
        => since_poll[valid_agents[ridx]] = 300

\* The number of threads main has started that equal t.
Started(t) == Cardinality({i \in 1..Len(threads) : threads[i] = t})

\* C11: when main has started the threads, which it does only on a list of
\* valid agents that is not empty, there is exactly one run_agent_loop
\* thread for each valid agent, none for any other, and exactly one
\* recovery_loop thread; the recovery loop and every agent loop that lives
\* can step whatever the others do; and the recovery loop polls the agents
\* that have a mint loop, all of them in each cycle and no other.
C11_OneLoopEach ==
    /\ Started(RecoveryThread) <= 1
    /\ \A a \in Agents : Started(AgentThread(a)) <= 1
    /\ polled_once \subseteq Range(valid_agents)
    /\ mpc = "waiting" =>
          /\ valid_agents # <<>>
          /\ Started(RecoveryThread) = 1
          /\ \A a \in Agents :
                Started(AgentThread(a)) = IF a \in Range(valid_agents) THEN 1 ELSE 0
          /\ Running = Range(valid_agents)
          /\ rpc \in {"poll", "sleep_agent", "sleep_cycle"}
          /\ ENABLED (RecoveryPoll \/ RecoveryNext \/ RecoveryCycle)
          /\ \A a \in Running : ~Crashed(a) => ENABLED AgentStep(a)
          /\ polled_once \subseteq Running
          /\ rpc = "sleep_cycle" => Range(cycle_polls) = Running

C11_Witness ==
    /\ mpc = "waiting"
    /\ Len(agents) = 2
    /\ valid_agents = <<2>>
    /\ registered = {}
    /\ fired[2] > 0
    /\ rpc = "sleep_cycle"
    /\ polled_once = {2}

\* Entry i of the loaded list is one main has to run: a real name and
\* either a key of its own or one that registration gave it in this run.
Qualifies(i) ==
    /\ i \in 1..Len(agents)
    /\ agents[i].name \notin {"name", "YourAgentName"}
    /\ \/ i \in registered
       \/ KeyLen(agents[i].api_key) >= 10 /\ agents[i].api_key # "key"

\* Main is through with starting threads, or has returned without.
MainDone == mpc \in {"waiting", "returned"}

\* C12: an agent of the file gets a mint loop iff its name is no placeholder
\* and it has a key of 10 characters or more other than "key" or was given
\* a key by registration in this run.  An agent that does not qualify, one
\* whose registration failed among them, never sends a mint request and is
\* never polled; and when no agent qualifies no thread is started.
C12_LoopIffQualified ==
    /\ \A i \in Agents :
          (i \in Running \/ fired[i] > 0 \/ i \in polled_once
              \/ Started(AgentThread(i)) > 0) => Qualifies(i)
    /\ MainDone => \A i \in Agents : Qualifies(i) => i \in Running
    /\ (MainDone /\ \A i \in Agents : ~Qualifies(i)) =>
          /\ mpc = "returned"
          /\ threads = <<>>
          /\ rpc = "none"
          /\ Running = {}

C12_Witness ==
    /\ mpc = "waiting"
    /\ Len(agents) = 2
    /\ agents[1] = [name |-> "agent", api_key |-> "key"]
    /\ registered = {2}
    /\ agents[2].api_key = "short"
    /\ Running = {2}
    /\ fired[2] > 0
    /\ polled_once = {2}

\* The sleeps that go with a response, by the rules of lines 198-222.
C13_Sleeps(r) ==
    IF C2_Expected(r) = "unknown-error" THEN {60}
    ELSE IF C2_Expected(r) = "success" THEN 7260..7500
    ELSE IF r.data.retry_after_seconds.present
              /\ r.data.retry_after_seconds.val > 0
    THEN {r.data.retry_after_seconds.val + 5}
    ELSE IF Truthy(r.data.retry_after_minutes)
    THEN {r.data.retry_after_minutes.val * 60 + 30}
    ELSE {7230}

\* C13: the result list is empty from the start of an iteration until its
\* POST returns and holds nothing but that POST's result afterwards, so the
\* class and the sleep of an iteration follow from the response of that
\* iteration alone, whatever the iteration before recorded; a request that
\* raises after an earlier 429 is an unknown error with a sleep of 60.
C13_OwnResultOnly ==
    \A a \in Running :
        /\ (pc[a] # "top" /\ \A w \in Workers : wpc[a][w] # "done")
              => Results(a) = <<>>
        /\ (pc[a] # "top" /\ AllWorkersEnded(a))
              => Results(a) =
                    IF HasBody(Attempt(a)) \/ Attempt(a).kind = "nondict"
                    THEN <<Attempt(a)>> ELSE <<>>
        /\ Classified(a) =>
              /\ Outcome(a) = C2_Expected(Attempt(a))
              /\ sleep_time[a] \in C13_Sleeps(Attempt(a))
        /\ (Classified(a) /\ stale_hint[a] /\ Attempt(a).raised)
              => (Outcome(a) = "unknown-error" /\ sleep_time[a] = 60)

C13_Witness ==
    /\ stale_hint[1]
    /\ Attempt(1).raised
    /\ pc[1] = "sleeping"
    /\ Results(1) = <<>>
    /\ sleep_time[1] = 60

\* The agent is in a sleep it took after a 429 whose body is an object.
SleepsOn429(a) ==
    /\ pc[a] = "sleeping"
    /\ HasBody(Attempt(a))
    /\ Attempt(a).status = 429

\* C14 as stated: the sleep taken after a 429 is at least every hint of the
\* response, retry_after_seconds and retry_after_minutes * 60 alike.
C14_AtLeastEveryHint ==
    \A a \in Running :
        LET d == Attempt(a).data
        IN  SleepsOn429(a) =>
               /\ d.retry_after_seconds.present
                     => sleep_time[a] >= d.retry_after_seconds.val
               /\ d.retry_after_minutes.present
                     => sleep_time[a] >= d.retry_after_minutes.val * 60

\* C14, amended: the sleep computed after a 429 is at least
\* retry_after_seconds when that hint is greater than 0; it is at least
\* retry_after_minutes * 60 when there is no retry_after_seconds greater
\* than 0; and a sleep that is taken is at least the retry_after_seconds
\* the response carries.  retry_after_minutes is not looked at when
\* retry_after_seconds is greater than 0.
C14_AtLeastTheHintUsed ==
    \A a \in Running :
        LET r == Attempt(a)
            d == r.data
            seconds == d.retry_after_seconds.present
                          /\ d.retry_after_seconds.val > 0
        IN  /\ (Classified(a) /\ HasBody(r) /\ r.status = 429) =>
                  /\ seconds => sleep_time[a] >= d.retry_after_seconds.val
                  /\ (~seconds /\ d.retry_after_minutes.present)
                        => sleep_time[a] >= d.retry_after_minutes.val * 60
            /\ (SleepsOn429(a) /\ d.retry_after_seconds.present)
                  => sleep_time[a] >= d.retry_after_seconds.val

C14_Witness ==
    /\ SleepsOn429(1)
    /\ Attempt(1).data.retry_after_seconds = [present |-> TRUE, val |-> 1]
    /\ Attempt(1).data.retry_after_minutes = [present |-> TRUE, val |-> 2]
    /\ sleep_time[1] = 6
    /\ sleep_time[1] < 2 * 60

\* C15: whatever integers the server puts in retry_after_seconds and
\* retry_after_minutes, the sleep an iteration computes is more than 0.
C15_PositiveSleep ==
    \A a \in Running : Classified(a) => sleep_time[a] > 0

\* Main has started a thread, or is at the lines that do.
Scheduling == mpc \in {"start_recovery", "start_agents", "waiting"}

\* C16: main rewrites the credentials file only when registration gave some
\* agent a key in this run, and then once, with the keys in it; with every
\* agent keyed already, skipped as a placeholder or failed to register, the
\* file stays as it was found.  No thread is started before the
\* registration loop has gone through the whole list and the file, if it
\* is to be rewritten, has been.
C16_RewriteOnlyIfRegistered ==
    /\ mpc # "template" =>
          /\ writes <= 1
          /\ writes = 1 => (registered # {} /\ file.entries = agents)
          /\ (registered = {} /\ mpc # "start") =>
                (writes = 0 /\ file.entries = agents)
    /\ (mpc \in {"schedule", "returned"} \/ Scheduling) =>
          (writes = 1 <=> registered # {})
    /\ (threads # <<>> \/ Running # {} \/ rpc # "none") =>
          /\ Scheduling
          /\ \A i \in 1..Len(agents) :
                Qualifies(i) <=> i \in Range(valid_agents)
          /\ registered # {} => (writes = 1 /\ file.entries = agents)

C16_Witness ==
    /\ mpc = "waiting"
    /\ Len(agents) = 2
    /\ registered = {1}
    /\ agents[2] = [name |-> "agent", api_key |-> "key"]
    /\ writes = 1
    /\ file.entries[1].api_key = "short"
    /\ Running = {1}
    /\ fired[1] > 0
    /\ rpc = "sleep_agent"

=============================================================================
